---- MODULE Spec2Model ----
(***************************************************************************)
(* History Store of the data-analysis application (src/utils.py, the       *)
(* "历史记录管理功能" section) and the part of the main page that records an  *)
(* analysis (src/main.py).  The durable log is the SQLite table            *)
(* analysis_history of the file analysis_history.db.                       *)
(*                                                                         *)
(* Encodings.  A Python optional argument is a sequence: <<>> is None and  *)
(* <<v>> is the value v.  A "%Y-%m-%d %H:%M:%S" text is the number of      *)
(* whole seconds it denotes: both sides of every comparison the code makes *)
(* are texts of that one format, for which text order is time order.  A    *)
(* dict is a function whose DOMAIN is the dict's keys.                     *)
(*                                                                         *)
(* The second part is the reading and combining of uploaded files:         *)
(* merge_multiple_files and join_dataframes of src/utils.py and the        *)
(* single-file page of src/main.py.  A call's arguments and outcome are    *)
(* kept in ret; an outcome is a returned value or a raised exception.      *)
(***************************************************************************)
EXTENDS Integers, Sequences, FiniteSets, TLC

VARIABLES
    log,      \* analysis_history.db: "absent", "file" (no table yet), "ready"
    rows,     \* the rows of analysis_history, in insertion (rowid) order
    seq,      \* sqlite_sequence.seq of analysis_history (AUTOINCREMENT)
    clock,    \* the host's UTC time, in ticks
    tz,       \* the host's local-time offset from UTC, in hours
    issued,   \* history: every id a record call has been given
    ret,      \* the last call and what it returned
    tx        \* the calls under way in concurrent processes, and the locks they hold

vars == <<log, rows, seq, clock, tz, issued, ret, tx>>

----------------------------------------------------------------------------
(* Bounds of the model *)

MaxRecords == 3      \* record calls that reach the INSERT
MaxAdvances == 2     \* clock advances
TicksPerSec == 2     \* clock resolution below the second

----------------------------------------------------------------------------
(* Python / SQL values *)

None == <<>>
Some(v) == <<v>>

\* Python truthiness of an optional int / an optional str
TruthyInt(o) == o /= None /\ o[1] /= 0
TruthyStr(o) == o /= None /\ o[1] /= ""

HourTicks == 3600 * TicksPerSec
DayTicks == 24 * HourTicks

\* strftime("%Y-%m-%d %H:%M:%S") of a time in ticks: the sub-second part is dropped
Strftime(t) == t \div TicksPerSec

\* datetime.now(): naive local time
LocalNow == clock + tz * HourTicks

\* SQLite CURRENT_TIMESTAMP / datetime('now'): UTC, whole seconds
CurrentTimestamp == Strftime(clock)

Max(S) == CHOOSE x \in S : \A y \in S : y <= x

Range(s) == {s[i] : i \in 1..Len(s)}

----------------------------------------------------------------------------
(* Inputs *)

ChartKeys == {"bar", "line", "table"}

\* results handed to save_analysis_history: dicts over answer/bar/line/table
AnswerOnly == [k \in {"answer"} |-> "text"]
AnswerBar == [k \in {"answer", "bar"} |-> IF k = "answer" THEN "text" ELSE "data"]
TableOnly == [k \in {"table"} |-> "data"]

\* a call of save_analysis_history(query, model_used, data_info, result, session_id)
Call(q, m, r, s) == [query |-> q, model_used |-> m, result |-> r, session_id |-> s]

Calls ==
    { Call(Some("q"), Some("modelX"), AnswerOnly, Some("a")),
      Call(Some("q"), Some("modelY"), AnswerBar, Some("b")),
      Call(Some("q"), Some("modelX"), TableOnly, None),
      Call(Some("q"), Some("modelX"), TableOnly, Some("")),
      Call(Some("q"), None, AnswerOnly, Some("a")),
      Call(None, Some("modelX"), AnswerOnly, Some("a")) }

TimedCalls ==
    { Call(Some("q"), Some("modelX"), AnswerOnly, Some("a")),
      Call(Some("q"), Some("modelY"), TableOnly, None) }

DataInfo == [columns |-> 2, rows |-> 5]

\* where an I/O error strikes a write: nowhere, or at one of its steps
InitFaults == {"none", "connect", "create"}
SaveFaults == InitFaults \cup {"insert", "commit"}

TzOffsets == {0, 8}

\* the time that passes between two calls: eighteen hours and one tick
ClockStep == 18 * HourTicks + 1

RecordIds == {None, Some(0), Some(1)}
SessionIds == {None, Some(""), Some("a"), Some("default")}
DaysOld == {None, Some(0), Some(1)}
Limits == 0..2

----------------------------------------------------------------------------
(* init_history_database *)

\* sqlite3.connect creates the file; CREATE TABLE IF NOT EXISTS creates the table once
InitDatabase(l, fault) ==
    CASE fault = "connect" -> l
      [] fault = "create" -> IF l = "absent" THEN "file" ELSE l
      [] OTHER -> "ready"

\* CREATE TABLE IF NOT EXISTS: an existing table keeps its rows
InitTableRecreate(tbl) == <<>>
InitTable(tbl) == tbl

Initialize(fault) ==
    /\ log' = InitDatabase(log, fault)
    /\ rows' = InitTable(rows)
    /\ ret' = [op |-> "initialize", ok |-> fault = "none"]
    /\ UNCHANGED <<tx, seq, clock, tz, issued>>

----------------------------------------------------------------------------
(* save_analysis_history *)

\* charts_info: one flag per chart key that is a key of result
ChartsInfo(result) == {k \in ChartKeys : k \in DOMAIN result}

\* result.get("answer", "")
ResultText(result) == IF "answer" \in DOMAIN result THEN result["answer"] ELSE ""

\* session_id or "default"
StoredSession(s) == IF TruthyStr(s) THEN s[1] ELSE "default"

\* INTEGER PRIMARY KEY AUTOINCREMENT: one more than the largest id ever used
NextIdReuse(tbl, s) == IF tbl = <<>> THEN 1 ELSE Max({tbl[i].id : i \in 1..Len(tbl)}) + 1
NextId(tbl, s) == s + 1

NewRow(id, c) ==
    [ id |-> id,
      timestamp |-> Strftime(LocalNow),
      query |-> c.query[1],
      model_used |-> c.model_used[1],
      data_info |-> DataInfo,
      result_text |-> ResultText(c.result),
      result_data |-> c.result,
      charts_info |-> ChartsInfo(c.result),
      session_id |-> StoredSession(c.session_id),
      created_at |-> CurrentTimestamp ]

\* INSERT INTO analysis_history
SqlInsertReplace(tbl, row) ==
    Append(SelectSeq(tbl, LAMBDA r : r.session_id /= row.session_id), row)
SqlInsert(tbl, row) == Append(tbl, row)

\* query and model_used are NOT NULL columns
NotNullOk(c) == c.query /= None /\ c.model_used /= None

\* the try block of save_analysis_history runs to its "return True"
SaveReturns(c, fault) == NotNullOk(c) /\ fault = "none"

\* the file after the call: init_history_database, then a second connect
SaveLog(l, fault) == IF fault \in InitFaults THEN InitDatabase(l, fault) ELSE "ready"

\* the table after the call: the INSERT stays only when the commit went through
SaveRowsNoRollback(tbl, s, c, fault) ==
    IF NotNullOk(c) /\ fault \in {"none", "commit"}
    THEN SqlInsert(InitTable(tbl), NewRow(NextId(tbl, s), c))
    ELSE tbl
SaveRows(tbl, s, c, fault) ==
    IF SaveReturns(c, fault)
    THEN SqlInsert(InitTable(tbl), NewRow(NextId(tbl, s), c))
    ELSE tbl

\* sqlite_sequence after the call
SaveSeq(tbl, s, c, fault) ==
    IF SaveReturns(c, fault) THEN Max({s, NextId(tbl, s)}) ELSE s

\* the ids given out so far
SaveIssued(tbl, s, c, fault) ==
    IF SaveReturns(c, fault) THEN issued \cup {NextId(tbl, s)} ELSE issued

\* the call before this one reached save_analysis_history, which returned False
AfterFailure ==
    \/ ret.op = "record" /\ ~ret.ok
    \/ ret.op = "analyze" /\ ret.called /\ ~ret.ok

Record(c, fault) ==
    /\ seq < MaxRecords
    /\ log' = SaveLog(log, fault)
    /\ rows' = SaveRows(rows, seq, c, fault)
    /\ seq' = SaveSeq(rows, seq, c, fault)
    /\ issued' = SaveIssued(rows, seq, c, fault)
    /\ ret' = [op |-> "record", ok |-> SaveReturns(c, fault), after_failure |-> AfterFailure]
    /\ UNCHANGED <<tx, clock, tz>>

----------------------------------------------------------------------------
(* get_analysis_history *)

\* WHERE session_id = ? when the filter is truthy, no WHERE otherwise
ListMatches(r, sess) == TruthyStr(sess) => r.session_id = sess[1]

\* the orders in which the rows of a set can be listed
RECURSIVE Orderings(_)
Orderings(S) ==
    IF S = {} THEN {<<>>} ELSE UNION {{<<r>> \o f : f \in Orderings(S \ {r})} : r \in S}

\* ORDER BY created_at DESC: any order that never puts an older created_at first
OrderedByCreatedAtDesc(f) ==
    \A i, j \in 1..Len(f) : i < j => f[i].created_at >= f[j].created_at

\* LIMIT n: the first n rows; a negative n is no limit
SqlLimit(f, n) == IF n < 0 \/ n >= Len(f) THEN f ELSE SubSeq(f, 1, n)

\* every result the SELECT may give
ListResults(tbl, limit, sess) ==
    {SqlLimit(f, limit) :
        f \in {g \in Orderings({r \in Range(tbl) : ListMatches(r, sess)}) :
                  OrderedByCreatedAtDesc(g)}}

\* no file: []; a file without the table: the except branch, [] again
List(limit, sess) ==
    /\ \E out \in (IF log = "ready" THEN ListResults(rows, limit, sess) ELSE {<<>>}) :
          ret' = [op |-> "list", limit |-> limit, session_id |-> sess, out |-> out]
    /\ UNCHANGED <<tx, log, rows, seq, clock, tz, issued>>

----------------------------------------------------------------------------
(* delete_analysis_history *)

\* the naive local-time cutoff text compared with created_at
CutoffDate(days) == Strftime(LocalNow - days * DayTicks)

\* the if/elif chain: which rows the one DELETE statement executed removes
DeleteMatches(r, rid, sess, days) ==
    CASE TruthyInt(rid) -> r.id = rid[1]
      [] TruthyStr(sess) -> r.session_id = sess[1]
      [] TruthyInt(days) -> r.created_at < CutoffDate(days[1])
      [] OTHER -> TRUE

DeleteRows(tbl, rid, sess, days) ==
    SelectSeq(tbl, LAMBDA r : ~DeleteMatches(r, rid, sess, days))

\* no file: True at once; a file without the table: the except branch, False
DeleteReturnsNoCheck(l) == l = "ready"
DeleteReturns(l) == l \in {"absent", "ready"}

Delete(rid, sess, days) ==
    /\ rows' = IF log = "ready" THEN DeleteRows(rows, rid, sess, days) ELSE rows
    /\ ret' = [op |-> "delete", ok |-> DeleteReturns(log),
               record_id |-> rid, session_id |-> sess, days_old |-> days]
    /\ UNCHANGED <<tx, log, seq, clock, tz, issued>>

----------------------------------------------------------------------------
(* get_history_statistics *)

NoModel == "无"

ModelCount(tbl, m) == Cardinality({i \in 1..Len(tbl) : tbl[i].model_used = m})

\* COUNT(DISTINCT session_id)
TotalSessionsAll(tbl) == Len(tbl)
TotalSessions(tbl) == Cardinality({tbl[i].session_id : i \in 1..Len(tbl)})

\* GROUP BY model_used ORDER BY count DESC LIMIT 1: a model of largest count,
\* whichever the engine lists first; no row at all gives the placeholder
MostUsedModelsOther(tbl) ==
    IF tbl = <<>>
    THEN {"unknown"}
    ELSE {m \in {tbl[i].model_used : i \in 1..Len(tbl)} :
             \A i \in 1..Len(tbl) : ModelCount(tbl, tbl[i].model_used) <= ModelCount(tbl, m)}
MostUsedModels(tbl) ==
    IF tbl = <<>>
    THEN {NoModel}
    ELSE {m \in {tbl[i].model_used : i \in 1..Len(tbl)} :
             \A i \in 1..Len(tbl) : ModelCount(tbl, tbl[i].model_used) <= ModelCount(tbl, m)}

\* created_at >= datetime('now', '-7 days')
RecentRecords(tbl) ==
    Cardinality({i \in 1..Len(tbl) : tbl[i].created_at >= Strftime(clock - 7 * DayTicks)})

StatsOf(total, sessions, model, recent) ==
    [total_records |-> total, total_sessions |-> sessions,
     most_used_model |-> model, recent_records |-> recent]

\* the dict returned when the file is absent, and by the except branch
EmptyStats == StatsOf(0, 0, NoModel, 0)

StatsResults ==
    IF log = "ready"
    THEN {StatsOf(Len(rows), TotalSessions(rows), m, RecentRecords(rows)) :
             m \in MostUsedModels(rows)}
    ELSE {EmptyStats}

Statistics ==
    /\ \E out \in StatsResults : ret' = [op |-> "statistics", out |-> out]
    /\ UNCHANGED <<tx, log, rows, seq, clock, tz, issued>>

----------------------------------------------------------------------------
(* main.py: the analysis request, from the engine's answer to the history message *)

ResultKeys == {"answer", "table", "bar", "line"}

\* what dataframe_agent may hand back: a dict over any of the four keys
Answer(K) == [k \in K |-> "data"]
EngineResults == {Answer(K) : K \in SUBSET ResultKeys}

\* the answers the model's requests draw from
FlowResults ==
    { Answer({"answer"}), Answer({"bar"}), Answer({"answer", "line"}), Answer({"table"}),
      Answer({}) }

\* where an I/O error strikes the request: in main.py's own init_history_database
\* call (the save is then never reached), or in save_analysis_history
FlowFaults ==
    {<<i, "none">> : i \in InitFaults} \cup {<<"none", f>> : f \in SaveFaults}

\* selected_model.get('model', 'unknown') with the default selection
MainModel == "deepseek-reasoner"

\* the result argument main.py builds: all four keys, always
MainResult(result) ==
    [k \in ResultKeys |->
        IF k = "answer" THEN ResultText(result)
        ELSE IF k \in DOMAIN result THEN "true" ELSE "false"]

\* the call main.py makes: no session_id argument
MainCall(result) == Call(Some("q"), Some(MainModel), MainResult(result), None)

\* st.info after the call returns, st.warning in the except branch
FlowMessage(called) == IF called THEN "info" ELSE "warning"

\* the browser sessions that issue requests
UserSessions == {"s1", "s2"}

AnalysisRequest(user, result, initFault, saveFault) ==
    LET called == initFault = "none"
        afterInit == InitDatabase(log, initFault)
        c == MainCall(result)
    IN  /\ seq < MaxRecords
        /\ log' = IF called THEN SaveLog(afterInit, saveFault) ELSE afterInit
        /\ rows' = IF called THEN SaveRows(rows, seq, c, saveFault) ELSE rows
        /\ seq' = IF called THEN SaveSeq(rows, seq, c, saveFault) ELSE seq
        /\ issued' = IF called THEN SaveIssued(rows, seq, c, saveFault) ELSE issued
        /\ ret' = [op |-> "analyze", user |-> user, shown |-> result, called |-> called,
                   ok |-> called /\ SaveReturns(c, saveFault),
                   message |-> FlowMessage(called),
                   after_failure |-> AfterFailure]
        /\ UNCHANGED <<tx, clock, tz>>

\* the data processing modes the radio offers
DataModes == {"single", "multi"}

\* the name `data` when the script reaches the request handling: the single-file
\* branch binds it to the uploader's value (None without a file); the multi-file
\* branch never assigns it, and every rerun starts from a fresh namespace
DataName(mode, uploaded) ==
    [bound |-> mode = "single", file |-> mode = "single" /\ uploaded]

\* st.button(disabled=not has_api_key or "df" not in st.session_state)
ButtonEnabled(hasKey, hasDf) == hasKey /\ hasDf

\* the statements between the pressed button and the engine: `not data` is
\* evaluated first and raises NameError for an unbound name
PressOutcome(data, hasKey, query) ==
    IF ~data.bound THEN "NameError"
    ELSE IF ~data.file THEN "no_data"
    ELSE IF ~hasKey THEN "no_key"
    ELSE IF query = "" THEN "idle"
    ELSE "analyze"

\* the queries typed into the text area
Queries == {"", "q"}
\* the answers the engine gives to the pressed button
PressResults == {Answer({"answer"}), Answer({"table"})}

\* one press of the generate button, from the button to the history message
GenerateAnswer(mode, uploaded, hasKey, hasDf, query, result, initFault, saveFault) ==
    LET data == DataName(mode, uploaded)
        outcome == PressOutcome(data, hasKey, query)
        reached == outcome = "analyze"
        called == reached /\ initFault = "none"
        afterInit == IF reached THEN InitDatabase(log, initFault) ELSE log
        c == MainCall(result)
    IN  /\ ButtonEnabled(hasKey, hasDf)
        /\ seq < MaxRecords
        /\ log' = IF called THEN SaveLog(afterInit, saveFault) ELSE afterInit
        /\ rows' = IF called THEN SaveRows(rows, seq, c, saveFault) ELSE rows
        /\ seq' = IF called THEN SaveSeq(rows, seq, c, saveFault) ELSE seq
        /\ issued' = IF called THEN SaveIssued(rows, seq, c, saveFault) ELSE issued
        /\ ret' = [op |-> "generate", mode |-> mode, uploaded |-> uploaded,
                   query |-> query, outcome |-> outcome,
                   engine_calls |-> IF reached THEN 1 ELSE 0,
                   record_calls |-> IF called THEN 1 ELSE 0,
                   ok |-> called /\ SaveReturns(c, saveFault)]
        /\ UNCHANGED <<tx, clock, tz>>

\* the history page: get_analysis_history(limit=20), the three clean-up choices
HistoryPageLimit == 20
CleanWeek == 7
CleanMonth == 30
CleanChoices == {Some(CleanWeek), Some(CleanMonth), None}

----------------------------------------------------------------------------
(* Tables: a pandas DataFrame is its column names in order and its rows,   *)
(* each row a function from the column names to cell texts                 *)

\* the cell pandas puts where a source has no value
Null == "NaN"
\* the column merge_multiple_files writes the file name into; the source's
\* name for it means "data source" and is written here in Latin letters
Provenance == "shujulaiyuan"

Frame(cols, data) == [cols |-> cols, data |-> data]
\* pd.DataFrame()
EmptyFrame == Frame(<<>>, <<>>)
\* DataFrame.empty: an axis of length 0
IsEmpty(t) == Len(t.cols) = 0 \/ Len(t.data) = 0
Columns(t) == Range(t.cols)

\* df[c] = v: an existing column is overwritten in place, a new one goes last
SetColumn(t, c, v) ==
    Frame(IF c \in Columns(t) THEN t.cols ELSE Append(t.cols, c),
          [i \in 1..Len(t.data) |->
              [k \in Columns(t) \cup {c} |-> IF k = c THEN v ELSE t.data[i][k]]])

\* the columns of more that cols does not have yet, appended in their order
AppendNew(cols, more) == cols \o SelectSeq(more, LAMBDA c : c \notin Range(cols))

RECURSIVE ConcatCols(_)
ConcatCols(frames) ==
    IF frames = <<>> THEN <<>>
    ELSE AppendNew(ConcatCols(SubSeq(frames, 1, Len(frames) - 1)),
                   frames[Len(frames)].cols)

RECURSIVE ConcatData(_)
ConcatData(frames) ==
    IF frames = <<>> THEN <<>> ELSE Head(frames).data \o ConcatData(Tail(frames))

\* a row on a wider set of columns
Widen(row, cols) ==
    [k \in Range(cols) |-> IF k \in DOMAIN row THEN row[k] ELSE Null]

\* pd.concat(frames, ignore_index=True, sort=False) with join='inner'
PdConcatInner(frames) ==
    LET common == {c \in Columns(frames[1]) : \A i \in 1..Len(frames) : c \in Columns(frames[i])}
        cols == SelectSeq(frames[1].cols, LAMBDA c : c \in common)
        data == ConcatData(frames)
    IN  Frame(cols, [i \in 1..Len(data) |-> [k \in common |-> data[i][k]]])
\* pd.concat(frames, ignore_index=True, sort=False)
PdConcat(frames) ==
    LET cols == ConcatCols(frames)
        data == ConcatData(frames)
    IN  Frame(cols, [i \in 1..Len(data) |-> Widen(data[i], cols)])

----------------------------------------------------------------------------
(* Uploaded files *)

MaxFiles == 2        \* files handed to one merge call

\* what the files hold
TabAB == Frame(<<"a", "b">>, << [a |-> "1", b |-> "x"], [a |-> "2", b |-> "y"] >>)
TabAC == Frame(<<"a", "c">>, << [a |-> "2", c |-> "z"] >>)
TabHeader == Frame(<<"a", "b">>, <<>>)
TabKC == Frame(<<"a", "c">>, << [a |-> "2", c |-> "z"], [a |-> "3", c |-> "w"] >>)
TabProv == Frame(<<"a", Provenance>>,
                 << [k \in {"a", Provenance} |-> IF k = "a" THEN "3" ELSE "old"] >>)

Sheet(name, table) == [name |-> name, table |-> table]
\* reads: the readers that can parse the file's bytes
Upload(name, reads, sheets) == [name |-> name, reads |-> reads, sheets |-> sheets]

BookX == Upload("x.xlsx", {"openpyxl", "default"}, <<Sheet("S1", TabAB), Sheet("S2", TabAC)>>)
BookL == Upload("l.xls", {"xlrd", "default"}, <<Sheet("S1", TabAC), Sheet("S2", TabAB)>>)
BookB == Upload("b.xlsb", {"default"}, <<Sheet("S1", TabAB)>>)
BookBad == Upload("bad.xlsx", {}, <<>>)
CsvProv == Upload("p.csv", {"csv"}, <<Sheet("默认", TabProv)>>)
CsvHeader == Upload("h.csv", {"csv"}, <<Sheet("默认", TabHeader)>>)

\* an element of file_list; sheet "0" is the index 0, any other text a name
Entry(file, type, sheet) == [file |-> file, type |-> type, sheet |-> sheet]

MergeInputs ==
    { Entry(BookX, "excel", Some("S2")),
      Entry(BookL, "excel", Some("S2")), Entry(BookB, "excel", Some("0")),
      Entry(BookBad, "excel", Some("0")),
      Entry(CsvProv, "csv", None), Entry(CsvHeader, "csv", None) }

RECURSIVE SeqsUpTo(_, _)
SeqsUpTo(S, n) ==
    IF n = 0 THEN {<<>>}
    ELSE LET shorter == SeqsUpTo(S, n - 1)
         IN  shorter \cup {Append(s, x) : s \in shorter, x \in S}

FileLists == SeqsUpTo(MergeInputs, MaxFiles)

\* the lists joined side by side
MaxJoined == 3       \* files handed to one merge call of type join
JoinedInputs == {Entry(BookX, "excel", Some("0")), Entry(BookX, "excel", Some("S2"))}
JoinedLists == SeqsUpTo(JoinedInputs, MaxJoined)

MergeCalls == (FileLists \X {"concat"}) \cup (JoinedLists \X {"join"})

----------------------------------------------------------------------------
(* Decoding a spreadsheet *)

\* one way of calling pd.read_excel: the engine, and whether sheet_name is given
Strategy(engine, sheet) == [engine |-> engine, sheet |-> sheet]

\* merge_multiple_files: every engine is given the selected sheet
MergeEngines ==
    << Strategy("openpyxl", TRUE), Strategy("xlrd", TRUE), Strategy("default", TRUE) >>
\* the single-file page: only the openpyxl attempt is given the selected sheet
PageEngines ==
    << Strategy("openpyxl", TRUE), Strategy("xlrd", FALSE), Strategy("default", FALSE) >>

\* the sheet_name argument of an attempt; None when the call has none
SheetArg(strategy, sel) == IF strategy.sheet THEN sel ELSE None

\* pd.read_excel(file, sheet_name=arg, engine=engine): None stands for the
\* exception.  Without the argument, and with index 0, the first sheet is read.
ReadExcel(file, engine, arg) ==
    IF engine \notin file.reads \/ file.sheets = <<>> THEN None
    ELSE IF arg = None \/ arg = Some("0") THEN Some(file.sheets[1].table)
    ELSE LET named == {i \in 1..Len(file.sheets) : file.sheets[i].name = arg[1]}
         IN  IF named = {} THEN None
             ELSE Some(file.sheets[CHOOSE i \in named : TRUE].table)

\* the read position of an uploaded file's stream: at the first byte, or
\* anywhere after it
AtStart == "start"
Moved == "moved"

\* file.seek(0)
Seek0(pos) == AtStart

\* a read that does not begin at the first byte does not see the file
ReadAt(file, engine, arg, pos) ==
    IF pos /= AtStart THEN None ELSE ReadExcel(file, engine, arg)

\* an attempt as it was made: engine, sheet_name argument, position it began at
Attempt(strategy, sel, pos) ==
    [engine |-> strategy.engine, sheet |-> SheetArg(strategy, sel), at |-> pos]

\* the loop over the engines without its break: the last success wins
RECURSIVE RunEnginesAll(_, _, _, _)
RunEnginesAll(file, sel, strategies, done) ==
    IF strategies = <<>> THEN done
    ELSE LET s == Head(strategies)
             pos == Seek0(done.pos)
             df == ReadAt(file, s.engine, SheetArg(s, sel), pos)
             now == [attempts |-> Append(done.attempts, Attempt(s, sel, pos)),
                     df |-> IF df = None THEN done.df ELSE df,
                     pos |-> Moved]
         IN  RunEnginesAll(file, sel, Tail(strategies), now)

\* the loop over the engines without the seek before each attempt
RECURSIVE RunEnginesNoSeek(_, _, _, _)
RunEnginesNoSeek(file, sel, strategies, done) ==
    IF strategies = <<>> THEN done
    ELSE LET s == Head(strategies)
             pos == done.pos
             df == ReadAt(file, s.engine, SheetArg(s, sel), pos)
             now == [attempts |-> Append(done.attempts, Attempt(s, sel, pos)),
                     df |-> df, pos |-> Moved]
         IN  IF df /= None THEN now
             ELSE RunEnginesNoSeek(file, sel, Tail(strategies), now)

\* the engines in order, each after a seek to the start; the first read that
\* raises nothing ends the loop.  A read, failed or not, moves the position.
RECURSIVE RunEngines(_, _, _, _)
RunEngines(file, sel, strategies, done) ==
    IF strategies = <<>> THEN done
    ELSE LET s == Head(strategies)
             pos == Seek0(done.pos)
             df == ReadAt(file, s.engine, SheetArg(s, sel), pos)
             now == [attempts |-> Append(done.attempts, Attempt(s, sel, pos)),
                     df |-> df, pos |-> Moved]
         IN  IF df /= None THEN now
             ELSE RunEngines(file, sel, Tail(strategies), now)

\* before the first attempt: nothing read, the stream where the caller's
\* seek to the start has put it
NoAttempt == [attempts |-> <<>>, df |-> None, pos |-> AtStart]

\* pd.read_csv(file) from the position pos
ReadCsv(file, pos) ==
    [attempts |-> << [engine |-> "csv", sheet |-> None, at |-> pos] >>,
     df |-> IF "csv" \in file.reads /\ pos = AtStart
            THEN Some(file.sheets[1].table) ELSE None,
     pos |-> Moved]

----------------------------------------------------------------------------
(* merge_multiple_files and the merge button of the multi-file page *)

\* one pass of the loop over file_list: the attempts made and the table read,
\* None when the file is skipped
DecodeEntry(e) ==
    CASE e.type = "excel" -> RunEngines(e.file, e.sheet, MergeEngines, NoAttempt)
      [] e.type = "csv" -> ReadCsv(e.file, Seek0(Moved))
      [] OTHER -> NoAttempt

Decoded(list) == [i \in 1..Len(list) |-> DecodeEntry(list[i])]

\* dataframes: the tables of the files that were read, each with the file's
\* name in the provenance column; a file that could not be read is passed over
RECURSIVE DataFrames(_)
DataFrames(list) ==
    IF list = <<>> THEN <<>>
    ELSE LET front == DataFrames(SubSeq(list, 1, Len(list) - 1))
             e == list[Len(list)]
             d == DecodeEntry(e)
         IN  IF d.df = None THEN front
             ELSE Append(front, SetColumn(d.df[1], Provenance, e.file.name))

\* a call's outcome: the value it returns, or the exception that leaves it
Returned(out) == [raised |-> FALSE, out |-> Some(out)]
Raised == [raised |-> TRUE, out |-> None]

\* the suffix DataFrame.join is given for the right table's columns
MergedSuffix == "_merged"

\* a right column gets a name that is already there
JoinClash(l, r, rsuffix) ==
    \E c \in Columns(l) \cap Columns(r) : (c \o rsuffix) \in Columns(l) \cup Columns(r)

\* l.join(r, rsuffix=rsuffix): a left join on the row index, which both tables
\* count from 0.  Under a name that occurs twice the row holds the left cell.
PdJoin(l, r, rsuffix) ==
    LET both == Columns(l) \cap Columns(r)
        RightName(c) == IF c \in both THEN c \o rsuffix ELSE c
        cols == l.cols \o [n \in 1..Len(r.cols) |-> RightName(r.cols[n])]
        Cell(i, name) ==
            IF name \in Columns(l) THEN l.data[i][name]
            ELSE LET c == CHOOSE c \in Columns(r) : RightName(c) = name
                 IN  IF i <= Len(r.data) THEN r.data[i][c] ELSE Null
    IN  Frame(cols, [i \in 1..Len(l.data) |-> [name \in Range(cols) |-> Cell(i, name)]])

\* result.join(df, rsuffix='_merged') for every further table.  Where the
\* suffix makes a name that is already there, the call returns the table with
\* the name twice or, where the installed pandas checks for it, raises
\* MergeError.
RECURSIVE JoinEach(_, _)
JoinEach(result, rest) ==
    IF rest = <<>> THEN {Returned(result)}
    ELSE (IF JoinClash(result, Head(rest), MergedSuffix) THEN {Raised} ELSE {})
            \cup JoinEach(PdJoin(result, Head(rest), MergedSuffix), Tail(rest))

\* the outcomes of merge_multiple_files(list, merge_type)
MergeResult(list, merge_type) ==
    LET dataframes == DataFrames(list)
    IN  IF dataframes = <<>> THEN {Returned(EmptyFrame)}
        ELSE IF merge_type = "concat" THEN {Returned(PdConcat(dataframes))}
        ELSE IF merge_type = "join" THEN JoinEach(Head(dataframes), Tail(dataframes))
        ELSE {Returned(dataframes[1])}

\* the page stores a non-empty result and reports success; an empty result
\* and an exception are both reported as an error
MergeMessage(r) == IF ~r.raised /\ ~IsEmpty(r.out[1]) THEN "success" ELSE "error"

MergeFiles(list, merge_type) ==
    /\ \E r \in MergeResult(list, merge_type) :
          ret' = [op |-> "merge", files |-> list, merge_type |-> merge_type,
                  decoded |-> Decoded(list),
                  raised |-> r.raised,
                  out |-> r.out,
                  message |-> MergeMessage(r)]
    /\ UNCHANGED <<tx, log, rows, seq, clock, tz, issued>>

\* the single-file page: the sheet is picked from the names openpyxl lists
LoadChoices(file) ==
    IF "openpyxl" \in file.reads
    THEN {Some(file.sheets[i].name) : i \in 1..Len(file.sheets)}
    ELSE {None}

LoadExcel(file, sel) ==
    /\ sel \in LoadChoices(file)
    /\ ret' = [op |-> "load", file |-> file, sheet |-> sel,
               decoded |-> RunEngines(file, sel, PageEngines, NoAttempt)]
    /\ UNCHANGED <<tx, log, rows, seq, clock, tz, issued>>

Books == {BookX, BookL, BookB, BookBad}

----------------------------------------------------------------------------
(* get_file_info and the sheet selection of the multi-file page *)

\* name.split('.')[-1].lower()
FileExtension(name) ==
    CASE name \in {"x.xlsx", "bad.xlsx"} -> "xlsx"
      [] name = "l.xls" -> "xls"
      [] name = "b.xlsb" -> "xlsb"
      [] OTHER -> "csv"

ExcelExtensions == {"xlsx", "xls", "xlsm", "xlsb", "xltx", "xltm"}

\* the multi-file page: every upload that is no spreadsheet is taken for csv
PageFileType(file) ==
    IF FileExtension(file.name) \in ExcelExtensions THEN "excel" ELSE "csv"

\* get_file_info(file, type) on a stream at pos: the dict it returns and where
\* it leaves the stream.  openpyxl.load_workbook reads the stream after the
\* seek to the start, and nothing seeks after it; its exception is caught and
\* noted under 'error'.
GetFileInfo(file, type, pos) ==
    IF type = "excel"
    THEN IF "openpyxl" \in file.reads
         THEN [sheets |-> [i \in 1..Len(file.sheets) |-> file.sheets[i].name],
               error |-> FALSE, raised |-> FALSE, pos |-> Moved]
         ELSE [sheets |-> <<>>, error |-> TRUE, raised |-> FALSE, pos |-> Moved]
    ELSE IF type = "csv"
    THEN [sheets |-> <<"默认">>, error |-> FALSE, raised |-> FALSE, pos |-> pos]
    ELSE [sheets |-> <<>>, error |-> FALSE, raised |-> FALSE, pos |-> pos]

\* the sheets the page lets the user pick from: the listed names when there
\* are more than one, else index 0 for a spreadsheet and None for csv
SheetChoices(type, sheets) ==
    IF type = "excel" /\ Len(sheets) > 1 THEN {Some(n) : n \in Range(sheets)}
    ELSE IF type = "excel" THEN {Some("0")}
    ELSE {None}

InspectFile(file, pos, sel) ==
    LET type == PageFileType(file)
        info == GetFileInfo(file, type, pos)
    IN  /\ sel \in SheetChoices(type, info.sheets)
        /\ ret' = [op |-> "inspect", file |-> file, type |-> type, before |-> pos,
                   sheets |-> info.sheets, error |-> info.error,
                   raised |-> info.raised, after |-> info.pos,
                   selected |-> sel]
        /\ UNCHANGED <<tx, log, rows, seq, clock, tz, issued>>

Uploads == {BookX, BookL, BookB, BookBad, CsvProv, CsvHeader}
Selections == {None} \cup {Some(n) : n \in {"0", "S1", "S2"}}

----------------------------------------------------------------------------
(* analyze_mixed_format_data and the mixed-format page *)

\* a second upload with the name of BookX
BookX2 == Upload("x.xlsx", {"openpyxl", "default"}, <<Sheet("S1", TabAC)>>)

ProfileInputs == {BookX, BookX2, BookBad, CsvHeader}
ProfileLists == SeqsUpTo(ProfileInputs, MaxFiles)

\* pd.read_excel(file, engine=engine): no attempt is given a sheet
ProfileEngines ==
    << Strategy("openpyxl", FALSE), Strategy("xlrd", FALSE), Strategy("default", FALSE) >>

\* the table read from one upload, None when the upload is passed over; the
\* stream of a fresh upload is at its start, and the csv branch does not seek
ProfileDecode(file) ==
    IF FileExtension(file.name) \in ExcelExtensions
    THEN RunEngines(file, None, ProfileEngines, NoAttempt)
    ELSE IF FileExtension(file.name) \in {"csv", "txt", "json"}
    THEN ReadCsv(file, AtStart)
    ELSE NoAttempt

ProfileFileType(file) ==
    IF FileExtension(file.name) \in ExcelExtensions THEN "Excel" ELSE "CSV"

\* the dtype pandas gives a column: number when every cell is one, else object
NumberTexts == {"1", "2", "3"}
ColumnKind(t, c) ==
    IF t.data /= <<>> /\ \A i \in 1..Len(t.data) : t.data[i][c] \in NumberTexts
    THEN "number" ELSE "object"
CountKind(t, kind) == Cardinality({c \in Columns(t) : ColumnKind(t, c) = kind})

\* df.head()
PreviewRows == 5
DataPreview(t) ==
    Frame(t.cols, SubSeq(t.data, 1, IF Len(t.data) < PreviewRows THEN Len(t.data)
                                                                   ELSE PreviewRows))

ProfileEntry(file, t) ==
    [file_type |-> ProfileFileType(file),
     rows |-> Len(t.data),
     columns |-> Len(t.cols),
     numeric_columns |-> CountKind(t, "number"),
     text_columns |-> CountKind(t, "object"),
     date_columns |-> CountKind(t, "datetime"),
     data_preview |-> DataPreview(t),
     dataframe |-> t]

\* analysis_results: a dict, its keys in insertion order; an entry stored
\* under a name that is already a key replaces that key's entry
EmptyDict == [keys |-> <<>>, at |-> <<>>]
DictSet(d, k, v) ==
    [keys |-> IF k \in Range(d.keys) THEN d.keys ELSE Append(d.keys, k),
     at |-> [n \in Range(d.keys) \cup {k} |-> IF n = k THEN v ELSE d.at[n]]]

RECURSIVE AnalysisResults(_)
AnalysisResults(files) ==
    IF files = <<>> THEN EmptyDict
    ELSE LET front == AnalysisResults(SubSeq(files, 1, Len(files) - 1))
             file == files[Len(files)]
             d == ProfileDecode(file)
         IN  IF d.df = None THEN front
             ELSE DictSet(front, file.name, ProfileEntry(file, d.df[1]))

\* the page: the tables of the report, one under the other, become the
\* loaded table; an empty report shows nothing and loads nothing
ProfileLoaded(report) ==
    LET tables == [n \in 1..Len(report.keys) |-> report.at[report.keys[n]].dataframe]
    IN  IF tables = <<>> THEN None
        ELSE IF Len(tables) > 1 THEN Some(PdConcat(tables))
        ELSE Some(tables[1])

AnalyzeMixed(files) ==
    /\ files /= <<>>
    /\ ret' = [op |-> "profile", files |-> files,
               decoded |-> [i \in 1..Len(files) |-> ProfileDecode(files[i])],
               report |-> AnalysisResults(files),
               df |-> ProfileLoaded(AnalysisResults(files))]
    /\ UNCHANGED <<tx, log, rows, seq, clock, tz, issued>>

----------------------------------------------------------------------------
(* join_dataframes *)

\* the suffixes pd.merge is given for the columns both tables have; the
\* source's suffixes mean "left table" and "right table"
LeftSuffix == "_left"
RightSuffix == "_right"

\* the cell texts in lexicographic order
TextOrder == <<"1", "2", "3", "old", "w", "x", "y", "z">>

RECURSIVE Flatten(_)
Flatten(ss) == IF ss = <<>> THEN <<>> ELSE Head(ss) \o Flatten(Tail(ss))

\* the positions of the rows whose key cell is k, in order
RowsWithKey(data, key, k) ==
    Flatten([i \in 1..Len(data) |-> IF data[i][key] = k THEN <<i>> ELSE <<>>])

\* every kind of join taken for the inner join
JoinPairsInner(l, r, key, how) ==
    LET RightOf(i) == RowsWithKey(r.data, key, l.data[i][key])
    IN  Flatten([i \in 1..Len(l.data) |->
                    [n \in 1..Len(RightOf(i)) |-> <<i, RightOf(i)[n]>>]])

\* the pairs <<i, j>> of a left row and a right row the join puts in one output
\* row, in output order; 0 stands for the side that has no row
JoinPairs(l, r, key, how) ==
    LET RightOf(i) == RowsWithKey(r.data, key, l.data[i][key])
        LeftOf(j) == RowsWithKey(l.data, key, r.data[j][key])
        FromLeft(i, keep) ==
            IF RightOf(i) = <<>> THEN (IF keep THEN << <<i, 0>> >> ELSE <<>>)
            ELSE [n \in 1..Len(RightOf(i)) |-> <<i, RightOf(i)[n]>>]
        FromRight(j) ==
            IF LeftOf(j) = <<>> THEN << <<0, j>> >>
            ELSE [n \in 1..Len(LeftOf(j)) |-> <<LeftOf(j)[n], j>>]
        OfKey(k) ==
            LET ls == RowsWithKey(l.data, key, k)
            IN  IF ls /= <<>> THEN Flatten([n \in 1..Len(ls) |-> FromLeft(ls[n], TRUE)])
                ELSE LET rs == RowsWithKey(r.data, key, k)
                     IN  [n \in 1..Len(rs) |-> <<0, rs[n]>>]
    IN  CASE how = "inner" -> Flatten([i \in 1..Len(l.data) |-> FromLeft(i, FALSE)])
          [] how = "left" -> Flatten([i \in 1..Len(l.data) |-> FromLeft(i, TRUE)])
          [] how = "right" -> Flatten([j \in 1..Len(r.data) |-> FromRight(j)])
          [] how = "outer" -> Flatten([n \in 1..Len(TextOrder) |-> OfKey(TextOrder[n])])

\* pd.merge with suffixes=('', RightSuffix): the left names stay as they are
PdMergeRightSuffix(l, r, key, how) ==
    LET both == (Columns(l) \cap Columns(r)) \ {key}
        RightName(c) == IF c \in both THEN c \o RightSuffix ELSE c
        rcols == SelectSeq(r.cols, LAMBDA c : c /= key)
        cols == l.cols \o [n \in 1..Len(rcols) |-> RightName(rcols[n])]
        pairs == JoinPairs(l, r, key, how)
        Cell(p, name) ==
            IF name \in Columns(l)
            THEN IF p[1] /= 0 THEN l.data[p[1]][name]
                 ELSE IF name = key THEN r.data[p[2]][key] ELSE Null
            ELSE LET c == CHOOSE c \in Range(rcols) : RightName(c) = name
                 IN  IF p[2] /= 0 THEN r.data[p[2]][c] ELSE Null
    IN  Frame(cols, [n \in 1..Len(pairs) |-> [name \in Range(cols) |-> Cell(pairs[n], name)]])

\* pd.merge(l, r, on=key, how=how, suffixes=(LeftSuffix, RightSuffix))
PdMerge(l, r, key, how) ==
    LET both == (Columns(l) \cap Columns(r)) \ {key}
        LeftName(c) == IF c \in both THEN c \o LeftSuffix ELSE c
        RightName(c) == IF c \in both THEN c \o RightSuffix ELSE c
        rcols == SelectSeq(r.cols, LAMBDA c : c /= key)
        cols == [n \in 1..Len(l.cols) |-> LeftName(l.cols[n])]
                   \o [n \in 1..Len(rcols) |-> RightName(rcols[n])]
        pairs == JoinPairs(l, r, key, how)
        Cell(p, name) ==
            IF \E c \in Columns(l) : LeftName(c) = name
            THEN LET c == CHOOSE c \in Columns(l) : LeftName(c) = name
                 IN  IF p[1] /= 0 THEN l.data[p[1]][c]
                     ELSE IF c = key THEN r.data[p[2]][key] ELSE Null
            ELSE LET c == CHOOSE c \in Range(rcols) : RightName(c) = name
                 IN  IF p[2] /= 0 THEN r.data[p[2]][c] ELSE Null
    IN  Frame(cols, [n \in 1..Len(pairs) |-> [name \in Range(cols) |-> Cell(pairs[n], name)]])

\* the ValueError of a missing join column is caught inside the function,
\* which then returns the left table
JoinResult(l, r, key, how) ==
    IF key \notin Columns(l) \/ key \notin Columns(r) THEN l
    ELSE PdMerge(l, r, key, how)

\* the object the call returns: pd.merge makes a new table, the except
\* branch hands back the left argument itself
JoinObject(l, r, key, how) ==
    IF key \notin Columns(l) \/ key \notin Columns(r) THEN "left" ELSE "new"

JoinTables == {TabAB, TabAC, TabKC}
JoinColumns == {"a", "b", "c"}
JoinTypes == {"inner", "left", "right", "outer"}

JoinDataframes(l, r, key, how) ==
    /\ ret' = [op |-> "join", left |-> l, right |-> r, key |-> key, how |-> how,
               raised |-> FALSE,
               out |-> Some(JoinResult(l, r, key, how)),
               object |-> JoinObject(l, r, key, how)]
    /\ UNCHANGED <<tx, log, rows, seq, clock, tz, issued>>

----------------------------------------------------------------------------
(* Several processes on one log file.  A call of save_analysis_history or   *)
(* get_analysis_history is the steps at which its SQLite connection takes   *)
(* and gives up the file locks; a connection that cannot get a lock waits   *)
(* (no step) or gives up after the busy timeout of sqlite3.connect          *)

Writers == {"w1", "w2"}
Readers == {"r1"}

\* no call under way
NoTransactions ==
    [pc |-> [p \in Writers \cup Readers |-> "idle"],
     staged |-> [w \in Writers |-> None],
     saved |-> [w \in Writers |-> None],
     seen |-> None]

\* what a writer records: its own session id tells the rows apart
WriterCall(w) == Call(Some("q"), Some("modelX"), AnswerOnly, Some(w))

\* another connection holds the RESERVED lock of an INSERT, or the EXCLUSIVE
\* lock of a commit
WriteLocked(t, w) == \E o \in Writers \ {w} : t.pc[o] \in {"reserved", "exclusive"}
\* a SELECT holds the SHARED lock
SharedHeld(t) == \E r \in Readers : t.pc[r] = "reading"
\* a commit is writing the pages of its transaction into the file
ExclusiveHeld(t) == \E w \in Writers : t.pc[w] = "exclusive"

\* the rows a SELECT reads: those of committed transactions
VisibleDirty(tbl, t) ==
    tbl \o [i \in 1..Cardinality({w \in Writers : t.staged[w] /= None}) |->
               t.staged[CHOOSE w \in Writers : t.staged[w] /= None][1]]
Visible(tbl, t) == tbl

\* init_history_database(), sqlite3.connect, conn.cursor()
SaveConnect(w) ==
    /\ tx.pc[w] \in {"idle", "done"}
    /\ ~ExclusiveHeld(tx)
    /\ log' = InitDatabase(log, "none")
    /\ rows' = InitTable(rows)
    /\ tx' = [tx EXCEPT !.pc[w] = "connected", !.saved[w] = None]
    /\ ret' = [op |-> "process", proc |-> w, step |-> "connect"]
    /\ UNCHANGED <<seq, clock, tz, issued>>

\* cursor.execute(INSERT): the transaction begins, takes the RESERVED lock and
\* keeps the new row, its id already drawn from sqlite_sequence, to itself
SaveInsert(w) ==
    /\ tx.pc[w] = "connected"
    /\ ~WriteLocked(tx, w)
    /\ seq < MaxRecords
    /\ tx' = [tx EXCEPT !.pc[w] = "reserved",
                        !.staged[w] = Some(NewRow(NextId(rows, seq), WriterCall(w)))]
    /\ ret' = [op |-> "process", proc |-> w, step |-> "insert"]
    /\ UNCHANGED <<log, rows, seq, clock, tz, issued>>

\* conn.commit() gets the EXCLUSIVE lock once no SELECT is reading
SaveCommit(w) ==
    /\ tx.pc[w] = "reserved"
    /\ ~SharedHeld(tx)
    /\ tx' = [tx EXCEPT !.pc[w] = "exclusive"]
    /\ ret' = [op |-> "process", proc |-> w, step |-> "commit"]
    /\ UNCHANGED <<log, rows, seq, clock, tz, issued>>

\* the commit ends: the row is in the file, the locks are given up;
\* conn.close(), return True
SaveCommitted(w) ==
    /\ tx.pc[w] = "exclusive"
    /\ rows' = SqlInsert(rows, tx.staged[w][1])
    /\ seq' = Max({seq, tx.staged[w][1].id})
    /\ issued' = issued \cup {tx.staged[w][1].id}
    /\ tx' = [tx EXCEPT !.pc[w] = "done", !.staged[w] = None, !.saved[w] = Some(TRUE)]
    /\ ret' = [op |-> "process", proc |-> w, step |-> "committed"]
    /\ UNCHANGED <<log, clock, tz>>

\* the lock the INSERT or the commit waits for is not given up within the
\* timeout: OperationalError (database is locked), the except branch returns
\* False, the dropped connection rolls its transaction back
SaveTimeout(w) ==
    /\ \/ tx.pc[w] = "connected" /\ WriteLocked(tx, w)
       \/ tx.pc[w] = "reserved" /\ SharedHeld(tx)
    /\ tx' = [tx EXCEPT !.pc[w] = "done", !.staged[w] = None, !.saved[w] = Some(FALSE)]
    /\ ret' = [op |-> "process", proc |-> w, step |-> "timeout"]
    /\ UNCHANGED <<log, rows, seq, clock, tz, issued>>

\* get_analysis_history: cursor.execute(SELECT) takes the SHARED lock
ListExecute(r) ==
    /\ tx.pc[r] = "idle"
    /\ log = "ready"
    /\ ~ExclusiveHeld(tx)
    /\ tx' = [tx EXCEPT !.pc[r] = "reading"]
    /\ ret' = [op |-> "process", proc |-> r, step |-> "execute"]
    /\ UNCHANGED <<log, rows, seq, clock, tz, issued>>

\* cursor.fetchall() reads the rows and ends the statement; conn.close()
ListFetch(r) ==
    /\ tx.pc[r] = "reading"
    /\ \E out \in ListResults(Visible(rows, tx), HistoryPageLimit, None) :
          tx' = [tx EXCEPT !.pc[r] = "idle", !.seen = Some(out)]
    /\ ret' = [op |-> "process", proc |-> r, step |-> "fetch"]
    /\ UNCHANGED <<log, rows, seq, clock, tz, issued>>

\* no file, or the SELECT meets a commit that outlasts the timeout: []
ListNothing(r) ==
    /\ tx.pc[r] = "idle"
    /\ log /= "ready" \/ ExclusiveHeld(tx)
    /\ tx' = [tx EXCEPT !.seen = Some(<<>>)]
    /\ ret' = [op |-> "process", proc |-> r, step |-> "nothing"]
    /\ UNCHANGED <<log, rows, seq, clock, tz, issued>>

----------------------------------------------------------------------------
(* the clock *)

Tick ==
    /\ clock + ClockStep <= MaxAdvances * ClockStep
    /\ clock' = clock + ClockStep
    /\ UNCHANGED <<tx, log, rows, seq, tz, issued, ret>>

----------------------------------------------------------------------------
(* Specifications *)

Init ==
    /\ log = "absent"
    /\ rows = <<>>
    /\ seq = 0
    /\ clock = 0
    /\ tz \in TzOffsets
    /\ issued = {}
    /\ ret = [op |-> "start"]
    /\ tx = NoTransactions

\* the store's calls with every selector, within one clock second
Next ==
    \/ \E f \in InitFaults : Initialize(f)
    \/ \E c \in Calls, f \in SaveFaults : Record(c, f)
    \/ \E l \in Limits, s \in SessionIds : List(l, s)
    \/ \E r \in RecordIds, s \in SessionIds, d \in DaysOld : Delete(r, s, d)
    \/ Statistics

Spec == Init /\ [][Next]_vars

\* the store's calls as time passes
NextTime ==
    \/ \E c \in TimedCalls, f \in {"none", "insert"} : Record(c, f)
    \/ \E l \in Limits : List(l, None)
    \/ \E d \in DaysOld : Delete(None, None, d)
    \/ Statistics
    \/ Tick

SpecTime == Init /\ [][NextTime]_vars

\* the pages of main.py: analysis requests, the history page
NextFlow ==
    \/ \E u \in UserSessions, r \in FlowResults, f \in FlowFaults :
          AnalysisRequest(u, r, f[1], f[2])
    \/ List(HistoryPageLimit, None)
    \/ \E d \in CleanChoices : Delete(None, None, d)
    \/ Statistics

SpecFlow == Init /\ [][NextFlow]_vars

\* the main page from the generate button on, in either data mode
NextMain ==
    \/ \E m \in DataModes, up \in BOOLEAN, k \in BOOLEAN, d \in BOOLEAN, q \in Queries,
          r \in PressResults, f \in FlowFaults :
          GenerateAnswer(m, up, k, d, q, r, f[1], f[2])
    \/ List(HistoryPageLimit, None)

SpecMain == Init /\ [][NextMain]_vars

\* two recording processes and a listing process on one log file
NextConcurrent ==
    \/ \E w \in Writers : SaveConnect(w)
    \/ \E w \in Writers : SaveInsert(w)
    \/ \E w \in Writers : SaveCommit(w)
    \/ \E w \in Writers : SaveCommitted(w)
    \/ \E w \in Writers : SaveTimeout(w)
    \/ \E r \in Readers : ListExecute(r)
    \/ \E r \in Readers : ListFetch(r)
    \/ \E r \in Readers : ListNothing(r)

SpecConcurrent == Init /\ [][NextConcurrent]_vars

\* the multi-file merge and the single-file page: reading and combining files
NextIngest ==
    \/ \E c \in MergeCalls : MergeFiles(c[1], c[2])
    \/ \E f \in Books, sel \in {None} \cup {Some(n) : n \in {"S1", "S2"}} : LoadExcel(f, sel)
    \/ \E l \in JoinTables, r \in JoinTables, key \in JoinColumns, how \in JoinTypes :
          JoinDataframes(l, r, key, how)
    \/ \E f \in Uploads, pos \in {AtStart, Moved}, sel \in Selections : InspectFile(f, pos, sel)
    \/ \E files \in ProfileLists : AnalyzeMixed(files)

SpecIngest == Init /\ [][NextIngest]_vars

----------------------------------------------------------------------------
(* Properties of the History Store *)

Ids(tbl) == {tbl[i].id : i \in 1..Len(tbl)}

IsPrefix(a, b) == Len(a) <= Len(b) /\ SubSeq(b, 1, Len(a)) = a

\* a step taken by a call (the clock stands still), as ret' tells it
CallStep(op) == ret'.op = op /\ clock' = clock

\* C1: record is append-only.  A step that is no delete call keeps every stored
\* row, with all its fields, where it was; and a record call that returns True
\* has added exactly one row after them.
C1_AppendOnly ==
    [][ /\ ret'.op /= "delete" => IsPrefix(rows, rows')
        /\ (CallStep("record") /\ ret'.ok) => Len(rows') = Len(rows) + 1 ]_vars

C1_Witness ==
    /\ ret.op = "record" /\ ret.ok
    /\ Len(rows) = 3
    /\ Ids(rows) = {1, 2, 3}

\* C2: identifiers are strictly increasing over the life of the log.  Whatever
\* was deleted in between, an id that appears in the table is greater than every
\* id given out before, so no id of a deleted record comes back.
C2_IdsIncrease ==
    [][ \A i \in Ids(rows') \ Ids(rows) : \A j \in issued : i > j ]_vars

\* records 1 and 2 were deleted before the third call was given its id
C2_Witness ==
    /\ ret.op = "record" /\ ret.ok
    /\ Len(rows) = 1
    /\ rows[1].id = 3
    /\ issued = {1, 2, 3}

\* the selector a delete call supplies, highest priority first: a supplied
\* argument is one that is not None, whatever its value
SuppliedSelects(r, rid, sess, days) ==
    CASE rid /= None -> r.id = rid[1]
      [] sess /= None -> r.session_id = sess[1]
      [] days /= None -> r.created_at < CutoffDate(days[1])
      [] OTHER -> TRUE

\* C3: a delete call honours exactly one selector, in the order record_id,
\* session_id, older_than_days: the rows it removes are the rows matching the
\* highest-priority argument supplied, and all rows go only when no argument is
\* supplied; record_id=0, session_id="" and older_than_days=0 are supplied values.
C3_OneSelector ==
    [][ (CallStep("delete") /\ ret'.ok /\ log = "ready") =>
            \A r \in Range(rows) :
                (r \notin Range(rows')) <=>
                    SuppliedSelects(r, ret'.record_id, ret'.session_id, ret'.days_old) ]_vars

\* C4: delete(older_than_days=d), d >= 1, removes only records whose created_at
\* (the UTC write time) is strictly older than now minus d days, whatever the
\* offset of the host's local clock from UTC.  (d = 0 takes the delete-all
\* branch, which C3 covers.)
C4_AgeCutoff ==
    [][ ( /\ CallStep("delete") /\ ret'.ok
          /\ ret'.record_id = None /\ ret'.session_id = None
          /\ TruthyInt(ret'.days_old) ) =>
            \A r \in Range(rows) :
                r \notin Range(rows') =>
                    r.created_at * TicksPerSec < clock - ret'.days_old[1] * DayTicks ]_vars

\* C5: list(limit) returns at most limit events, newest first: of two returned
\* events the one recorded later (the larger id) comes first, also when both were
\* recorded in the same clock second; with more than limit events stored, the
\* ones returned are the limit most recently recorded.
C5_NewestFirst ==
    (ret.op = "list" /\ ret.session_id = None) =>
        /\ Len(ret.out) <= ret.limit
        /\ \A i, j \in 1..Len(ret.out) : i < j => ret.out[i].id > ret.out[j].id
        /\ Len(rows) > ret.limit =>
               \A r \in Range(rows) : \A o \in Range(ret.out) :
                   r \notin Range(ret.out) => r.id < o.id

\* C6: list(limit, session_filter=s) returns only events whose session_id is s;
\* an event recorded with no session identifier is stored under "default" and
\* list(session_filter="default") returns it (the limit allowing).
C6_SessionFilter ==
    /\ (ret.op = "list" /\ ret.session_id /= None) =>
           \A i \in 1..Len(ret.out) : ret.out[i].session_id = ret.session_id[1]
    /\ \A c \in Calls :
           (c.session_id = None /\ NotNullOk(c)) => NewRow(1, c).session_id = "default"
    /\ (ret.op = "list" /\ ret.session_id = Some("default") /\ ret.limit >= Len(rows)) =>
           \A r \in Range(rows) : r.session_id = "default" => r \in Range(ret.out)

\* how many stored records name model m
RecordsOfModel(m) == Cardinality({i \in 1..Len(rows) : rows[i].model_used = m})

\* C7: statistics() reports the number of records stored, the number of
\* distinct session identifiers among them, and a model identifier whose record
\* count is largest.
C7_Statistics ==
    ret.op = "statistics" =>
        /\ ret.out.total_records = Len(rows)
        /\ ret.out.total_sessions = Cardinality({rows[i].session_id : i \in 1..Len(rows)})
        /\ rows /= <<>> =>
               /\ \E i \in 1..Len(rows) : rows[i].model_used = ret.out.most_used_model
               /\ \A i \in 1..Len(rows) :
                      RecordsOfModel(rows[i].model_used)
                          <= RecordsOfModel(ret.out.most_used_model)

\* sessions a, a, b with models modelX, modelX, modelY give 3, 2, modelX
C7_Witness ==
    /\ ret.op = "statistics"
    /\ Len(rows) = 3
    /\ <<rows[1].session_id, rows[2].session_id, rows[3].session_id>> = <<"a", "a", "b">>
    /\ <<rows[1].model_used, rows[2].model_used, rows[3].model_used>>
           = <<"modelX", "modelX", "modelY">>
    /\ ret.out.total_records = 3
    /\ ret.out.total_sessions = 2
    /\ ret.out.most_used_model = "modelX"

PlaceholderStats(model) ==
    [total_records |-> 0, total_sessions |-> 0, most_used_model |-> model,
     recent_records |-> 0]

\* the log holds no record: never written, emptied by delete, or absent
LogEmpty == log /= "ready" \/ rows = <<>>

\* C8 as stated: statistics() on an empty or absent log returns
\* {total_records: 0, total_sessions: 0, most_used_model: "none", recent_records: 0}.
C8_EmptyStatisticsNone ==
    (ret.op = "statistics" /\ LogEmpty) => ret.out = PlaceholderStats("none")

\* C8, amended: statistics() on an empty or absent log always returns, and
\* returns {total_records: 0, total_sessions: 0, most_used_model: "无",
\* recent_records: 0}: the placeholder is the text "无".
C8_EmptyStatistics ==
    /\ StatsResults /= {}
    /\ (ret.op = "statistics" /\ LogEmpty) => ret.out = PlaceholderStats("无")

\* statistics() on a log that delete has emptied
C8_Witness ==
    /\ ret.op = "statistics"
    /\ log = "ready" /\ rows = <<>> /\ issued /= {}
    /\ ret.out.most_used_model = "无"

\* C9: when the append fails, the record call returns False and does not raise
\* (main.py's except branch, which shows the warning, is not taken), the stored
\* records and the id sequence are as before, and the analysis result already
\* shown stays shown; a later record call can succeed.
C9_FailedAppend ==
    [][ /\ (CallStep("record") /\ ~ret'.ok) => (rows' = rows /\ seq' = seq)
        /\ (CallStep("analyze") /\ ret'.called /\ ~ret'.ok) =>
               /\ rows' = rows
               /\ seq' = seq
               /\ ret'.shown \in EngineResults
               /\ ret'.message /= "warning" ]_vars

\* a record is stored, the next append fails, the one after it succeeds
C9_Witness ==
    /\ ret.op = "analyze" /\ ret.ok /\ ret.after_failure
    /\ Len(rows) = 2

\* C10: the main flow shows the "saved to history" message only if the record
\* call succeeded, and shows the warning whenever it did not.
C10_FailureReported ==
    ret.op = "analyze" =>
        /\ ret.message = "info" => ret.ok
        /\ ~ret.ok => ret.message = "warning"

\* the row the last successful analysis request stored
StoredEvent == rows[Len(rows)]

\* C11: the stored event's bar, line and table flags are set exactly when the
\* analysis result had the bar, line or table field; an answer-only result is
\* stored with no flag.
C11_ChartFlags ==
    (ret.op = "analyze" /\ ret.ok) =>
        StoredEvent.charts_info = ChartKeys \cap DOMAIN ret.shown

\* C12: an event recorded by the main flow carries the identifier of the user
\* session that issued the request.
C12_SessionCarried ==
    (ret.op = "analyze" /\ ret.ok) => StoredEvent.session_id = ret.user

\* C13: on an absent log, list returns the empty sequence, delete returns
\* success with any selector or none, and neither call creates the file.
C13_AbsentLog ==
    [][ /\ (CallStep("list") /\ log = "absent") => (ret'.out = <<>> /\ log' = "absent")
        /\ (CallStep("delete") /\ log = "absent") =>
               (ret'.ok /\ log' = "absent" /\ rows' = rows) ]_vars

\* delete by record_id on a log that was never created
C13_Witness ==
    /\ ret.op = "delete" /\ ret.ok
    /\ ret.record_id = Some(1)
    /\ log = "absent"

\* C14: initialize is idempotent.  At any point between record and delete
\* calls it leaves the stored records, their fields and the next identifier as
\* they are, and the log it leaves is the one a single call leaves.
C14_InitializeIdempotent ==
    [][ CallStep("initialize") =>
           /\ rows' = rows
           /\ seq' = seq
           /\ ret'.ok => log' = "ready"
           /\ log = "ready" => log' = "ready"
           /\ InitDatabase(log', "none") = InitDatabase(log, "none") ]_vars

\* initialize after two records and the delete of one of them
C14_Witness ==
    /\ ret.op = "initialize" /\ ret.ok
    /\ Len(rows) = 1
    /\ issued = {1, 2}

----------------------------------------------------------------------------
(* Properties of reading and combining files *)

\* the spreadsheet decoding runs of the last call, each with its file, the
\* selected sheet and the place that ran it
DecodingRuns ==
    IF ret.op = "load"
    THEN {[file |-> ret.file, sel |-> ret.sheet, run |-> ret.decoded, by |-> "page"]}
    ELSE IF ret.op = "profile"
    THEN {[file |-> ret.files[i], sel |-> None, run |-> ret.decoded[i], by |-> "profile"] :
             i \in {j \in 1..Len(ret.files) :
                       FileExtension(ret.files[j].name) \in ExcelExtensions}}
    ELSE IF ret.op = "merge"
    THEN {[file |-> ret.files[i].file, sel |-> ret.files[i].sheet,
           run |-> ret.decoded[i], by |-> "merge"] :
             i \in {j \in 1..Len(ret.files) : ret.files[j].type = "excel"}}
    ELSE {}

\* the engines are tried in the order openpyxl, xlrd, pandas' default; every
\* attempt before the last one failed; the run's result is the last attempt's
\* result; and a run without result has made all three attempts
TriedInOrder(d) ==
    LET a == d.run.attempts
        n == Len(a)
    IN  /\ n \in 1..3
        /\ \A i \in 1..n : a[i].engine = <<"openpyxl", "xlrd", "default">>[i]
        /\ \A i \in 1..(n - 1) : ReadExcel(d.file, a[i].engine, a[i].sheet) = None
        /\ d.run.df = ReadExcel(d.file, a[n].engine, a[n].sheet)
        /\ d.run.df = None => n = 3
        /\ a[1].sheet = d.sel

\* C15 as claimed: spreadsheet decoding tries (a) openpyxl with the selected
\* sheet, (b) xlrd with no sheet argument, (c) the default engine, in this
\* order; the first success is the result and ends the run; decoding fails
\* only when all three were attempted and failed.
C15_StrategiesNoSheet ==
    \A d \in DecodingRuns :
        /\ TriedInOrder(d)
        /\ Len(d.run.attempts) >= 2 => d.run.attempts[2].sheet = None

\* C15: the order, the first success ending the run and the failure after
\* three attempts are as claimed.  The xlrd and default attempts are made
\* without sheet argument on the single-file page only: merge_multiple_files
\* gives the selected sheet to every attempt.
C15_Strategies ==
    \A d \in DecodingRuns :
        /\ TriedInOrder(d)
        /\ \A i \in 2..Len(d.run.attempts) :
              d.run.attempts[i].sheet = IF d.by = "merge" THEN d.sel ELSE None

\* a merge that read sheet S2 of the .xls file with its second attempt, and a
\* file that only the third attempt could read
C15_Witness ==
    /\ ret.op = "merge"
    /\ \E d \in DecodingRuns :
          /\ Len(d.run.attempts) = 2
          /\ d.sel = Some("S2")
          /\ d.run.df = Some(TabAB)
    /\ \E d \in DecodingRuns : Len(d.run.attempts) = 3 /\ d.run.df /= None

\* C16: a file that no strategy can decode makes the combine abort with a
\* decode error.
C16_DecodeAborts ==
    (ret.op = "merge" /\ \E i \in 1..Len(ret.files) : ret.decoded[i].df = None)
        => (ret.raised /\ ret.out = None)

\* the tables a merge call read, in file order, as the files hold them
InputTables ==
    LET read == SelectSeq(ret.decoded, LAMBDA d : d.df /= None)
    IN  [k \in 1..Len(read) |-> read[k].df[1]]

RECURSIVE RowsBefore(_, _)
RowsBefore(tables, k) ==
    IF k <= 1 THEN 0 ELSE RowsBefore(tables, k - 1) + Len(tables[k - 1].data)

\* where a column is first seen: the first table that has it, and its place there
FirstTable(tables, c) == CHOOSE k \in 1..Len(tables) :
    /\ c \in Columns(tables[k])
    /\ \A j \in 1..(k - 1) : c \notin Columns(tables[j])
PlaceIn(t, c) == CHOOSE i \in 1..Len(t.cols) : t.cols[i] = c
SeenBefore(tables, c, d) ==
    LET kc == FirstTable(tables, c)
        kd == FirstTable(tables, d)
    IN  kc < kd \/ (kc = kd /\ PlaceIn(tables[kc], c) < PlaceIn(tables[kd], d))

\* C17: in append mode the output has as many rows as the input tables
\* together; its columns, the provenance column aside, are the union of the
\* input columns in first-seen order; the rows come in input-table order with
\* their cells; and a cell of a column its source lacks is null.
C17_AppendCombine ==
    (ret.op = "merge" /\ ret.merge_type = "concat" /\ Len(InputTables) >= 1) =>
        LET T == InputTables
            out == ret.out[1]
            data == {c \in Columns(out) : c /= Provenance}
        IN  /\ Len(out.data) = RowsBefore(T, Len(T) + 1)
            /\ Len(out.cols) = Cardinality(Columns(out))
            /\ data = UNION {Columns(T[k]) : k \in 1..Len(T)} \ {Provenance}
            /\ \A i, j \in 1..Len(out.cols) :
                  (i < j /\ out.cols[i] \in data /\ out.cols[j] \in data)
                      => SeenBefore(T, out.cols[i], out.cols[j])
            /\ \A k \in 1..Len(T) : \A i \in 1..Len(T[k].data) : \A c \in data :
                  out.data[RowsBefore(T, k) + i][c] =
                      IF c \in Columns(T[k]) THEN T[k].data[i][c] ELSE Null

\* two files with the columns a, b and a, c: three rows, c after b, nulls
C17_Witness ==
    /\ ret.op = "merge" /\ ret.merge_type = "concat"
    /\ Len(ret.files) = 2
    /\ ret.out[1].cols = <<"a", "b", Provenance, "c">>
    /\ Len(ret.out[1].data) = 3
    /\ ret.out[1].data[1]["c"] = Null
    /\ ret.out[1].data[3]["b"] = Null

\* C18: append mode adds exactly one provenance column, whose value in every
\* row names the file the row came from; the combine of one table T is T plus
\* that one column, also when T has a column of the provenance column's name.
C18_ProvenanceAdded ==
    (ret.op = "merge" /\ ret.merge_type = "concat" /\ Len(ret.files) = 1
        /\ Len(InputTables) = 1) =>
        LET T == InputTables[1]
            out == ret.out[1]
        IN  /\ Len(out.cols) = Len(T.cols) + 1
            /\ SubSeq(out.cols, 1, Len(T.cols)) = T.cols
            /\ Len(out.data) = Len(T.data)
            /\ \A i \in 1..Len(T.data) :
                  /\ \A j \in 1..Len(T.cols) : out.data[i][out.cols[j]] = T.data[i][T.cols[j]]
                  /\ out.data[i][out.cols[Len(out.cols)]] = ret.files[1].file.name

\* C19: the combine of an empty input fails with EmptyInputError, while inputs
\* that all decode and hold no row give a table of zero rows without error,
\* which the caller is told apart from the failure.
C19_EmptyInput ==
    ret.op = "merge" =>
        /\ ret.files = <<>> => (ret.raised /\ ret.out = None)
        /\ (/\ ret.files /= <<>>
            /\ Len(InputTables) = Len(ret.files)
            /\ \A k \in 1..Len(InputTables) : InputTables[k].data = <<>>) =>
               /\ ~ret.raised
               /\ ret.out[1].data = <<>>
               /\ ret.message /= MergeMessage(Returned(EmptyFrame))

\* C20: a join whose key column is missing from the left or from the right
\* table fails with MissingKeyError, and no table is returned as its result.
C20_MissingKey ==
    (ret.op = "join" /\ (ret.key \notin Columns(ret.left) \/ ret.key \notin Columns(ret.right)))
        => (ret.raised /\ ret.out = None)

\* a join call whose key column both tables have
KeyJoin ==
    /\ ret.op = "join"
    /\ ret.key \in Columns(ret.left) \cap Columns(ret.right)

KeysOf(t, key) == {t.data[i][key] : i \in 1..Len(t.data)}

\* the name a column of one side has in the join's output
JoinedName(c, suffix) ==
    IF c \in (Columns(ret.left) \cap Columns(ret.right)) \ {ret.key}
    THEN c \o suffix ELSE c

\* output row n holds the cells of row i of the left table
HoldsLeftRow(n, i) ==
    \A c \in Columns(ret.left) :
        ret.out[1].data[n][JoinedName(c, LeftSuffix)] = ret.left.data[i][c]

Occurs(cols, name) == Cardinality({n \in 1..Len(cols) : cols[n] = name})

C23_NewTable ==
    ret.op = "join" => ret.object = "new"

\* C28: every table a combine operation returns has pairwise distinct column
\* names: in append mode, in the key join, and in the index join of
\* merge_multiple_files over two, three or more files.
C28_DistinctColumns ==
    (ret.op \in {"merge", "join"} /\ ~ret.raised) =>
        \A c \in Columns(ret.out[1]) : Occurs(ret.out[1].cols, c) = 1

\* C24: the inspection of a file that is no workbook fails with an
\* InspectionError the caller sees; get_file_info does not return an empty
\* sheet list for the caller to take for a workbook of one sheet.
C24_InspectionFails ==
    (ret.op = "inspect" /\ ret.type = "excel" /\ ret.file.reads = {}) =>
        (ret.raised /\ ret.selected /= Some("0"))

\* C25: the profile report has one entry for every upload that decodes, with
\* the row and column counts of that upload's table and every column counted
\* in at most one of the numeric, text and date counts; also for two uploads
\* of one name.
C25_ProfileReport ==
    ret.op = "profile" =>
        LET read == {i \in 1..Len(ret.files) : ret.decoded[i].df /= None}
        IN  /\ Len(ret.report.keys) = Cardinality(read)
            /\ \A i \in read :
                  LET t == ret.decoded[i].df[1]
                      e == ret.report.at[ret.files[i].name]
                  IN  /\ e.rows = Len(t.data)
                      /\ e.columns = Len(t.cols)
                      /\ e.numeric_columns + e.text_columns + e.date_columns <= e.columns

\* C26: every attempt of a spreadsheet fallback chain begins at the start of
\* the stream, whatever the attempts before it have read: in the merge, in
\* the profile and on the single-file page.
C26_AttemptsFromStart ==
    \A d \in DecodingRuns :
        \A i \in 1..Len(d.run.attempts) :
            /\ d.run.attempts[i].at = AtStart
            /\ (i = Len(d.run.attempts)) =>
                   d.run.df = ReadExcel(d.file, d.run.attempts[i].engine, d.run.attempts[i].sheet)

\* a file the third attempt read, after two attempts that failed
C26_Witness ==
    /\ ret.op = "load"
    /\ \E d \in DecodingRuns :
          /\ Len(d.run.attempts) = 3
          /\ d.run.attempts[3].at = AtStart
          /\ d.run.df /= None

\* C27: when the workbook inspector returns, with or without success, the
\* stream is back at its start.
C27_InspectorResets ==
    ret.op = "inspect" => ret.after = AtStart

----------------------------------------------------------------------------
(* Properties of the main flow in the two data modes *)

\* the table of the request was loaded by the selected mode: the single-file
\* uploader holds the file, or the multi-file merge stored its result
LoadedByMode == ret.mode = "multi" \/ ret.uploaded

\* C30: a press of the generate button with a non-empty query, a stored API
\* key and a table loaded by the selected data mode (single-file upload or
\* multi-file merge) reaches the analysis engine and is followed by exactly one
\* record call.
C30_RequestRecorded ==
    (ret.op = "generate" /\ ret.query /= "" /\ LoadedByMode) =>
        /\ ret.engine_calls = 1
        /\ ret.record_calls = 1

----------------------------------------------------------------------------
(* Properties of concurrent recording and listing *)

\* every row the last listing returned is a stored row, with all its columns
SeenWhole == tx.seen /= None => \A i \in 1..Len(tx.seen[1]) : tx.seen[1][i] \in Range(rows)

\* the stored rows have pairwise distinct ids
DistinctIds == \A i, j \in 1..Len(rows) : rows[i].id = rows[j].id => i = j

\* the save call of w returns in this step
SaveEnds(w) == tx.pc[w] /= "done" /\ tx'.pc[w] = "done"

\* C29 as stated: with two processes recording while another lists, a reader
\* sees each record with all its columns or not at all, the stored records have
\* distinct ids, and every writer's record ends up stored.
C29_BothStored ==
    /\ SeenWhole
    /\ DistinctIds
    /\ \A w \in Writers : tx.pc[w] = "done" =>
          /\ tx.saved[w] = Some(TRUE)
          /\ \E i \in 1..Len(rows) : rows[i].session_id = w

\* C29: with two processes recording while another lists, every record is one
\* atomic transaction: a reader sees a record with all its columns or not at
\* all, the stored records have distinct ids, the table changes only by one
\* whole row of a call that then returns True, and a call that returns False
\* (its lock was not granted in time) stores nothing.
C29_AtomicRecords ==
    [][ /\ SeenWhole'
        /\ DistinctIds'
        /\ rows' /= rows =>
              \E w \in Writers :
                  /\ SaveEnds(w)
                  /\ tx'.saved[w] = Some(TRUE)
                  /\ rows' = Append(rows, tx.staged[w][1])
        /\ \A w \in Writers : SaveEnds(w) =>
              IF tx'.saved[w] = Some(TRUE)
              THEN Len(rows') = Len(rows) + 1 /\ rows'[Len(rows')].session_id = w
              ELSE tx'.saved[w] = Some(FALSE) /\ rows' = rows ]_vars

\* both writers have a row stored under distinct ids, the reader has listed
\* rows, and now lists again while one writer holds its uncommitted row and
\* the other waits for the write lock
C29_Witness ==
    /\ \A w \in Writers : \E i \in 1..Len(rows) : rows[i].session_id = w
    /\ tx.seen /= None /\ Len(tx.seen[1]) >= 1
    /\ tx.pc["r1"] = "reading"
    /\ tx.pc["w1"] = "reserved" /\ tx.staged["w1"] /= None
    /\ tx.pc["w2"] = "connected"

====
